---- MODULE Spec2Model ----
(***************************************************************************)
(* A model of stats.py, the COVID-19 rating calculator: the CSV ingestion  *)
(* (row2dict, load_json), the per-country merge and population enrichment  *)
(* (countries2json), the metric calculation (calculate_ratings), the       *)
(* top-20 ranking (print_topmost_20), the cache handling and the command   *)
(* line dispatch of __main__.                                              *)
(*                                                                         *)
(* Python values are modelled as follows.                                  *)
(*  - a str holding a count is PyStr(<<d1, ..., dn>>), its decimal digits;  *)
(*    an int is PyInt(n).  int() is ParseInt, computed digit by digit.     *)
(*  - a dict is an ordered map [order, rec]: the keys in insertion order   *)
(*    and the values by key (Python dicts keep insertion order, and the    *)
(*    stable sort of print_topmost_20 depends on it).                      *)
(*  - a dict with string keys fixed by the code (a country record, a       *)
(*    metric record) is a TLA+ function on the keys that are present.      *)
(*  - a file name is a sequence of chunks; s + t is s \o t and             *)
(*    s.endswith(t) compares the trailing chunks.                          *)
(*  - a float ratio rounded to 3 decimals is the integer number of         *)
(*    thousandths, computed by long division (see Round3).                 *)
(***************************************************************************)
EXTENDS Integers, Sequences, FiniteSets, TLC

VARIABLES
    files,              \* the three CSV files: case type -> sequence of rows
    countries,          \* countries2json: the country map being built
    missing_countries,  \* countries2json: names left without population
    cpc,                \* countries2json: position ("load", "merge", "done", "fault")
    ci,                 \* countries2json: files loaded / countries merged so far
    ratings,            \* the ratings dict (calculate_ratings' result)
    min_population,     \* calculate_ratings: the cutoff argument
    tops,               \* print_topmost_20: metric key -> ranking
    retops,             \* the rankings of the ranked countries, ranked again
    printed,            \* print_topmost_20: headers of the tables printed
    rpc,                \* position of the ratings / ranking run
    hash,               \* __main__: the revision hash
    dir,                \* the working directory: names listed by os.listdir
    unremovable,        \* names whose os.remove raises
    cachegood,          \* whether the cache file of this revision parses as JSON
    argv,               \* sys.argv[1:]
    data,               \* __main__: the loaded or computed snapshot
    output,             \* __main__: what was printed (sequence of events)
    mpc,                \* __main__: position
    exitcode            \* __main__: exit status (None while running)

vars == <<files, countries, missing_countries, cpc, ci, ratings, min_population,
          tops, retops, printed, rpc, hash, dir, unremovable, cachegood, argv,
          data, output, mpc, exitcode>>

ingestVars == <<files, countries, missing_countries, cpc, ci>>
rankVars   == <<ratings, min_population, tops, retops, printed, rpc>>
mainVars   == <<hash, dir, unremovable, cachegood, argv, data, output, mpc, exitcode>>

-----------------------------------------------------------------------------
(* Bounds of the model *)

\* number of date columns of the CSV headers
NDates == 2
\* most countries of a ratings dict given to print_topmost_20 beyond TopN
ExtraCountries == 2

-----------------------------------------------------------------------------
(* Python values *)

\* an optional value: None, or the value x as Some(x)
PyNone == <<>>
Some(x) == <<x>>

PyStr(digits) == <<"str", digits>>
PyInt(n) == <<"int", n>>
IsStr(v) == v[1] = "str"

RECURSIVE ParseInt(_)
ParseInt(digits) ==
    IF digits = <<>> THEN 0
    ELSE 10 * ParseInt(SubSeq(digits, 1, Len(digits) - 1)) + digits[Len(digits)]

\* int(v) of a str; an int passes through (type(v) is str guards the call)
ToInt(v) == IF IsStr(v) THEN ParseInt(v[2]) ELSE v[2]

Min(a, b) == IF a < b THEN a ELSE b
Max(a, b) == IF a > b THEN a ELSE b

Range(s) == {s[i] : i \in DOMAIN s}

EmptyFn == [x \in {} |-> 0]
EmptyDict == [order |-> <<>>, rec |-> EmptyFn]
DictHas(d, k) == k \in DOMAIN d.rec
DictSet(d, k, v) ==
    [order |-> IF DictHas(d, k) THEN d.order ELSE Append(d.order, k),
     rec   |-> (k :> v) @@ d.rec]
FnSet(f, k, v) == (k :> v) @@ f
FnDel(f, k) == [x \in DOMAIN f \ {k} |-> f[x]]

-----------------------------------------------------------------------------
(* Keys and tables of the program *)

key_mainland == "mainland"
key_deaths == "deaths"
key_confirmed == "confirmed"
key_recovered == "recovered"
case_types == <<key_deaths, key_confirmed, key_recovered>>
CaseTypes == Range(case_types)

key_mortality == "Mort"
key_lethality == "let"
key_active_per_unknown == "APU"
key_active_per_population == "APP"
key_confirmed_per_population == "CPP"
key_invalidate == "invalidate"
file_ext_cache_json == <<".cache.json">>

\* the rename table, restricted to the names of the model's universe
exceptional_names ==
    [n \in {"Andorra", "Bahamas", "Diamond Princess", "Serbia", "US", "MS Zaandam"} |->
        CASE n = "Bahamas" -> Some("The Bahamas")
          [] n = "US" -> Some("United States")
          [] OTHER -> PyNone]

\* the literal population table, restricted to the names of the model's universe
exceptional_populations ==
    [n \in {"Andorra", "Serbia"} |->
        IF n = "Andorra" THEN 77543 ELSE 6963764]

\* The population lookup service (the countryinfo package): the names it
\* recognizes and the population it returns for each.  It is outside the
\* repository; the values stand for what the package holds.
CountryInfoPopulation ==
    [n \in {"Italy", "Iceland", "The Bahamas", "United States", "Japan", "San Marino"} |->
        CASE n = "Italy" -> 59000000
          [] n = "Iceland" -> 330000
          [] n = "The Bahamas" -> 380000
          [] n = "United States" -> 200000000
          [] n = "Japan" -> 127000000
          [] OTHER -> 33000]

is_country_name_valid(name) == name \in DOMAIN CountryInfoPopulation

-----------------------------------------------------------------------------
(* CSV ingestion: row2dict and load_json *)

\* A row is [province, country, cells]: cells are the columns from index 4 on
\* (latitude and longitude are copied along by the code and never read).
\* The header has 4 + NDates columns; a date is its column's position 1..NDates,
\* and a series (a dict keyed by date) is the sequence of its values.
row2dict(row) == SubSeq(row.cells, 1, Min(NDates, Len(row.cells)))

\* one iteration of load_json's loop over the rows
LoadRow(type, cs, row) ==
    LET series   == row2dict(row)
        province == IF row.province = "" THEN key_mainland ELSE row.province
        cs1      == IF DictHas(cs, row.country) THEN cs
                    ELSE DictSet(cs, row.country, [territories |-> EmptyDict])
        ters     == cs1.rec[row.country].territories
        ters1    == IF DictHas(ters, province)
                    THEN DictSet(ters, province, FnSet(ters.rec[province], type, series))
                    ELSE DictSet(ters, province, (type :> series))
    IN  DictSet(cs1, row.country, [territories |-> ters1])

RECURSIVE LoadRows(_, _, _, _)
LoadRows(type, cs, rows, i) ==
    IF i > Len(rows) THEN cs
    ELSE LET next == LoadRow(type, cs, rows[i])
         IN  \* the row's country is in the map by now; the test makes the evaluation
             \* build the map row by row, as the loop does
             IF DictHas(next, rows[i].country)
             THEN LoadRows(type, next, rows, i + 1)
             ELSE next

load_json(type, cs, fs) == LoadRows(type, cs, fs[type], 1)

-----------------------------------------------------------------------------
(* countries2json: population and totals of one country *)

\* lines 218-233: the country record with its population, and whether the
\* country was appended to missing_countries
AddPopulation(rec, country) ==
    IF is_country_name_valid(country)
    THEN [rec |-> FnSet(rec, "population", CountryInfoPopulation[country]), missing |-> FALSE]
    ELSE IF country \in DOMAIN exceptional_names
         THEN LET ex_name == exceptional_names[country]
              IN  IF ex_name # PyNone /\ is_country_name_valid(ex_name[1])
                  THEN [rec |-> FnSet(rec, "population", CountryInfoPopulation[ex_name[1]]),
                        missing |-> FALSE]
                  ELSE IF country \in DOMAIN exceptional_populations
                       THEN [rec |-> FnSet(rec, "population", exceptional_populations[country]),
                             missing |-> FALSE]
                       ELSE [rec |-> rec, missing |-> TRUE]
         ELSE [rec |-> rec, missing |-> FALSE]

EmptyTotals == [t \in CaseTypes |-> <<>>]

AddSeries_Overwrite(total, series) ==
    [date \in 1..Max(Len(total), Len(series)) |->
        IF date <= Len(series) THEN PyInt(ToInt(series[date])) ELSE total[date]]

\* lines 243-250: the dates of one territory's series added into a totals series
AddSeries(total, series) ==
    [date \in 1..Max(Len(total), Len(series)) |->
        IF date > Len(total) THEN PyInt(ToInt(series[date]))
        ELSE IF date <= Len(series) THEN PyInt(total[date][2] + ToInt(series[date]))
        ELSE total[date]]

\* lines 240-250: the territories from position i on, for one case type
RECURSIVE SumTerritories(_, _, _, _)
SumTerritories(ters, case_type, total, i) ==
    IF i > Len(ters.order) THEN total
    ELSE LET territory == ters.rec[ters.order[i]]
         IN  IF case_type \notin DOMAIN territory
             THEN SumTerritories(ters, case_type, total, i + 1)
             ELSE SumTerritories(ters, case_type,
                                 AddSeries(total, territory[case_type]), i + 1)

\* lines 252-255: the case types from position k on of a single-territory
\* country; a missing key raises KeyError and leaves the totals as they are
RECURSIVE CopyMainland(_, _, _)
CopyMainland(rec, totals, k) ==
    IF k > Len(case_types)
    THEN [rec |-> FnDel(FnSet(rec, "totals", totals), "territories"), fault |-> FALSE]
    ELSE IF ~DictHas(rec.territories, key_mainland)
            \/ case_types[k] \notin DOMAIN rec.territories.rec[key_mainland]
         THEN [rec |-> FnSet(rec, "totals", totals), fault |-> TRUE]
         ELSE CopyMainland(rec,
                  FnSet(totals, case_types[k],
                        rec.territories.rec[key_mainland][case_types[k]]),
                  k + 1)

\* lines 236-255
MergeTotals(rec) ==
    IF Len(rec.territories.order) > 1
    THEN [rec |-> FnSet(rec, "totals",
                     [t \in CaseTypes |-> SumTerritories(rec.territories, t, <<>>, 1)]),
          fault |-> FALSE]
    ELSE CopyMainland(rec, EmptyTotals, 1)

\* one iteration of the loop of lines 214-260
ProcessCountry(cs, country) ==
    LET pop    == AddPopulation(cs.rec[country], country)
        merged == MergeTotals(pop.rec)
    IN  [countries |-> DictSet(cs, country, merged.rec),
         missing   |-> pop.missing,
         fault     |-> merged.fault]

\* the loop of lines 214-260 from position i on; a KeyError ends it
RECURSIVE ProcessCountries(_, _, _)
ProcessCountries(cs, missing, i) ==
    IF i > Len(cs.order) THEN [countries |-> cs, missing |-> missing, fault |-> FALSE]
    ELSE LET r == ProcessCountry(cs, cs.order[i])
             m == IF r.missing THEN Append(missing, cs.order[i]) ELSE missing
         IN  IF r.fault THEN [countries |-> r.countries, missing |-> m, fault |-> TRUE]
             ELSE ProcessCountries(r.countries, m, i + 1)

\* countries2json as a whole, as __main__ calls it
countries2json(fs) ==
    ProcessCountries(
        load_json(case_types[3], load_json(case_types[2],
            load_json(case_types[1], EmptyDict, fs), fs), fs),
        <<>>, 1)

-----------------------------------------------------------------------------
(* The inputs of the ingestion: CSV files of one country *)

ProvinceOrder == <<"", "Hubei", "Ontario">>
IngestNames == {"Italy", "US", "Andorra", "Diamond Princess", "Atlantis"}

\* the cells a row can hold: a row may be shorter or longer than the header
CellPool ==
    << [deaths    |-> <<PyStr(<<1>>), PyStr(<<2>>), PyStr(<<3>>)>>,
        confirmed |-> <<PyStr(<<1, 0>>), PyStr(<<1, 2>>), PyStr(<<1, 5>>)>>,
        recovered |-> <<PyStr(<<0, 7>>)>>],
       [deaths    |-> <<PyStr(<<0>>)>>,
        confirmed |-> <<PyStr(<<5>>), PyStr(<<9>>)>>,
        recovered |-> <<PyStr(<<3>>), PyStr(<<4>>), PyStr(<<4>>)>>] >>

\* what the files hold of one province: the case types whose file has a row
\* of it, and the cells of these rows
TerritoryShapes ==
    {[types |-> {}, cells |-> 1]}
    \cup {[types |-> S, cells |-> v] : S \in (SUBSET CaseTypes) \ {{}}, v \in DOMAIN CellPool}

RECURSIVE RowsOf(_, _, _, _)
RowsOf(type, country, shape, i) ==
    IF i > Len(ProvinceOrder) THEN <<>>
    ELSE LET p == ProvinceOrder[i]
         IN  (IF type \in shape[p].types
              THEN <<[province |-> p, country |-> country,
                      cells |-> CellPool[shape[p].cells][type]]>>
              ELSE <<>>)
             \o RowsOf(type, country, shape, i + 1)

IdleIngest ==
    /\ files = [t \in CaseTypes |-> <<>>]
    /\ countries = EmptyDict
    /\ missing_countries = <<>>
    /\ cpc = "idle"
    /\ ci = 0

IdleRank ==
    /\ ratings = EmptyDict
    /\ min_population = PyNone
    /\ tops = EmptyFn
    /\ retops = EmptyFn
    /\ printed = <<>>
    /\ rpc = "idle"

IdleMain ==
    /\ hash = <<>>
    /\ dir = {}
    /\ unremovable = {}
    /\ cachegood = FALSE
    /\ argv = <<>>
    /\ data = PyNone
    /\ output = <<>>
    /\ mpc = "idle"
    /\ exitcode = PyNone

InitIngest ==
    /\ \E country \in IngestNames :
       \E shape \in [Range(ProvinceOrder) -> TerritoryShapes] :
          files = [t \in CaseTypes |-> RowsOf(t, country, shape, 1)]
    /\ countries = EmptyDict
    /\ missing_countries = <<>>
    /\ cpc = "load"
    /\ ci = 0
    /\ IdleRank
    /\ IdleMain

\* lines 199-201: one call of load_json
LoadFile ==
    /\ cpc = "load"
    /\ ci < Len(case_types)
    /\ countries' = load_json(case_types[ci + 1], countries, files)
    /\ IF ci + 1 < Len(case_types)
       THEN ci' = ci + 1 /\ cpc' = "load"
       ELSE ci' = 0 /\ cpc' = IF countries'.order = <<>> THEN "done" ELSE "merge"
    /\ UNCHANGED <<files, missing_countries, rankVars, mainVars>>

\* lines 214-260: one iteration of the loop over the countries
MergeCountry ==
    /\ cpc = "merge"
    /\ ci < Len(countries.order)
    /\ LET r == ProcessCountry(countries, countries.order[ci + 1])
       IN  /\ countries' = r.countries
           /\ missing_countries' = IF r.missing
                                   THEN Append(missing_countries, countries.order[ci + 1])
                                   ELSE missing_countries
           /\ IF r.fault THEN cpc' = "fault" /\ ci' = ci
              ELSE /\ ci' = ci + 1
                   /\ cpc' = IF ci + 1 = Len(countries.order) THEN "done" ELSE "merge"
    /\ UNCHANGED <<files, rankVars, mainVars>>

NextIngest == LoadFile \/ MergeCountry

SpecIngest == InitIngest /\ [][NextIngest]_vars

-----------------------------------------------------------------------------
(* calculate_ratings *)

Abs(x) == IF x < 0 THEN -x ELSE x

\* long division: `steps` more decimal digits of the quotient q, remainder r
RECURSIVE LongDiv(_, _, _, _)
LongDiv(q, r, den, steps) ==
    IF steps = 0 THEN [q |-> q, r |-> r]
    ELSE LongDiv(q * 10 + ((r * 10) \div den), (r * 10) % den, den, steps - 1)

\* round(num / den * 10^k, 3), in thousandths; den # 0.  The float division
\* and round() are taken as exact, with round's half-to-even.
Round3(num, den, k) ==
    LET d  == LongDiv(Abs(num) \div Abs(den), Abs(num) % Abs(den), Abs(den), k + 3)
        up == 2 * d.r > Abs(den) \/ (2 * d.r = Abs(den) /\ d.q % 2 = 1)
        q  == IF up THEN d.q + 1 ELSE d.q
    IN  IF (num < 0) = (den < 0) THEN q ELSE -q

\* lines 341-346: the countries the loop passes over
Skipped_NoCutoff(rec, cutoff) == "population" \notin DOMAIN rec

Skipped(rec, cutoff) ==
    \/ "population" \notin DOMAIN rec
    \/ (cutoff # PyNone /\ rec.population < cutoff[1])

\* lines 341-389: one iteration of the loop over the countries.  The local
\* variable population is assigned only under a cutoff (line 344).
RateCountry(rec, cutoff, date) ==
    IF Skipped(rec, cutoff) THEN [kind |-> "skip"]
    ELSE IF date > Len(rec.totals[key_deaths]) THEN [kind |-> "KeyError"]
    ELSE IF rec.population = 0 THEN [kind |-> "ZeroDivisionError"]
    ELSE IF date > Len(rec.totals[key_confirmed]) THEN [kind |-> "KeyError"]
    ELSE LET deaths_cases    == ToInt(rec.totals[key_deaths][date])
             confirmed_cases == ToInt(rec.totals[key_confirmed][date])
         IN
         IF confirmed_cases = 0 THEN [kind |-> "ZeroDivisionError"]
         ELSE IF date > Len(rec.totals[key_recovered]) THEN [kind |-> "KeyError"]
         ELSE LET recovered_cases == ToInt(rec.totals[key_recovered][date])
                  active_cases    == confirmed_cases - recovered_cases - deaths_cases
                  unknown_cases   == rec.population - confirmed_cases
              IN
              IF unknown_cases = 0 THEN [kind |-> "ZeroDivisionError"]
              ELSE IF cutoff = PyNone THEN [kind |-> "UnboundLocalError"]
              ELSE [kind   |-> "rated",
                    rating |->
                      [Mort       |-> Round3(deaths_cases, rec.population, 6),
                       let        |-> Round3(deaths_cases, confirmed_cases, 2),
                       APU        |-> Round3(active_cases, unknown_cases, 0),
                       deaths     |-> rec.totals[key_deaths][date],
                       confirmed  |-> confirmed_cases,
                       active     |-> active_cases,
                       APP        |-> Round3(active_cases, rec.population, 2),
                       CPP        |-> Round3(confirmed_cases, rec.population, 2),
                       population |-> rec.population]]

\* the loop of lines 340-389 from position i on; an exception ends it
RECURSIVE RateCountries(_, _, _, _, _)
RateCountries(cs, cutoff, date, rs, i) ==
    IF i > Len(cs.order) THEN [fault |-> "none", ratings |-> rs]
    ELSE LET r == RateCountry(cs.rec[cs.order[i]], cutoff, date)
         IN  CASE r.kind = "skip"  -> RateCountries(cs, cutoff, date, rs, i + 1)
               [] r.kind = "rated" ->
                    RateCountries(cs, cutoff, date, DictSet(rs, cs.order[i], r.rating), i + 1)
               [] OTHER -> [fault |-> r.kind, ratings |-> rs]

\* calculate_ratings(data, min_population) with date = None: the date is the
\* last one of the US deaths totals (line 326)
calculate_ratings(cs, cutoff) ==
    IF ~DictHas(cs, "US") THEN [fault |-> "KeyError", ratings |-> EmptyDict]
    ELSE IF cs.rec["US"].totals[key_deaths] = <<>>
         THEN [fault |-> "IndexError", ratings |-> EmptyDict]
         ELSE RateCountries(cs, cutoff, Len(cs.rec["US"].totals[key_deaths]), EmptyDict, 1)

-----------------------------------------------------------------------------
(* print_topmost_20 *)

TopN == 20

rating_keys == <<key_mortality, key_lethality, key_active_per_population,
                 key_active_per_unknown, key_confirmed_per_population>>

\* the tables print_rating is called for (lines 444-449), by their metric
printed_keys == <<key_mortality, key_lethality, key_active_per_population,
                  key_confirmed_per_population>>

\* sorted() is stable: x goes behind every element whose key is not greater
InsertSorted(sorted, x, rs, key) ==
    LET n == Cardinality({j \in DOMAIN sorted : rs.rec[sorted[j]][key] <= rs.rec[x][key]})
    IN  SubSeq(sorted, 1, n) \o <<x>> \o SubSeq(sorted, n + 1, Len(sorted))

RECURSIVE SortFrom(_, _, _, _)
SortFrom(sorted, rs, key, i) ==
    IF i > Len(rs.order) THEN sorted
    ELSE SortFrom(InsertSorted(sorted, rs.order[i], rs, key), rs, key, i + 1)

SortedBy_Unsorted(rs, key) == rs.order

\* line 401: the countries, ascending by the metric
SortedBy(rs, key) == SortFrom(<<>>, rs, key, 1)

Last20_First(s) == SubSeq(s, 1, Min(TopN, Len(s)))

\* line 402: list(rating)[-20:]
Last20(s) == SubSeq(s, Max(1, Len(s) - TopN + 1), Len(s))

\* line 403
Reverse(s) == [j \in 1..Len(s) |-> s[Len(s) + 1 - j]]

\* lines 401-404, for one metric
Topmost20(rs, key) == Reverse(Last20(SortedBy(rs, key)))

\* lines 399-404
Tops(rs) == [k \in Range(rating_keys) |-> Topmost20(rs, k)]

\* lines 413-449: the tables printed, each with its metric and its rows
Tables(rs) ==
    [j \in DOMAIN printed_keys |->
        [key |-> printed_keys[j], rows |-> Tops(rs)[printed_keys[j]]]]

\* print_topmost_20 on the ratings at hand
PrintTopmost20 ==
    /\ rpc = "rated"
    /\ tops' = Tops(ratings)
    /\ printed' = Tables(ratings)
    /\ rpc' = "printed"
    /\ UNCHANGED <<ratings, min_population, retops, ingestVars, mainVars>>

\* the ranked countries of each metric, in the order of the ranking, ranked
\* again by that metric
Rerank ==
    /\ rpc = "printed"
    /\ retops' = [k \in Range(rating_keys) |->
                     Topmost20([order |-> tops[k],
                                rec   |-> [c \in Range(tops[k]) |-> ratings.rec[c]]], k)]
    /\ rpc' = "reranked"
    /\ UNCHANGED <<ratings, min_population, tops, printed, ingestVars, mainVars>>

-----------------------------------------------------------------------------
(* The inputs of the ranking: ratings dicts of up to TopN + ExtraCountries  *)
(* countries, named 1, 2, ... in the dict's order.  The metric values       *)
(* follow a pattern (a, b, m): metric number k of country i is              *)
(* ((a + k) * i + b) % m - 2, which gives all-equal values (m = 1), many    *)
(* ties (m = 2, 3, 5) and pairwise distinct values (m = 29).                *)

PatternModuli == {1, 2, 3, 5, 29}
PatternSlopes == {0, 1, 2}
PatternShifts == {0, 1}

PatternValue(a, b, m, k, i) == (((a + k) * i + b) % m) - 2

PatternRating(a, b, m, i) ==
    [Mort       |-> PatternValue(a, b, m, 1, i),
     let        |-> PatternValue(a, b, m, 2, i),
     APP        |-> PatternValue(a, b, m, 3, i),
     APU        |-> PatternValue(a, b, m, 4, i),
     CPP        |-> PatternValue(a, b, m, 5, i),
     deaths     |-> PyInt(i),
     confirmed  |-> 10 * i,
     active     |-> i,
     population |-> 1000000 * i]

InitRank ==
    /\ \E n \in 0..(TopN + ExtraCountries) :
       \E a \in PatternSlopes : \E b \in PatternShifts : \E m \in PatternModuli :
          ratings = [order |-> [i \in 1..n |-> i],
                     rec   |-> [i \in 1..n |-> PatternRating(a, b, m, i)]]
    /\ min_population = PyNone
    /\ tops = EmptyFn
    /\ retops = EmptyFn
    /\ printed = <<>>
    /\ rpc = "rated"
    /\ IdleIngest
    /\ IdleMain

NextRank == PrintTopmost20 \/ Rerank

SpecRank == InitRank /\ [][NextRank]_vars

Value(key, c) == ratings.rec[c][key]

\* no two countries of the ranking have the same value of the metric
NoTies(ranking, key) ==
    \A i, j \in DOMAIN ranking : i # j => Value(key, ranking[i]) # Value(key, ranking[j])

PositionIn(s, x) == CHOOSE j \in DOMAIN s : s[j] = x

(* C4: for each of the five ranked metrics, the ranking of n rated          *)
(* countries has exactly min(20, n) distinct countries, its metric values   *)
(* are non-increasing from first to last, and no country left out has a     *)
(* value strictly greater than a country in it.                             *)
C4_RankingIsTop20Descending ==
    rpc \in {"printed", "reranked"} =>
      \A key \in Range(rating_keys) :
        LET r == tops[key]
        IN  /\ Len(r) = Min(20, Len(ratings.order))
            /\ Range(r) \subseteq Range(ratings.order)
            /\ \A i, j \in DOMAIN r : i # j => r[i] # r[j]
            /\ \A i, j \in DOMAIN r : i < j => Value(key, r[i]) >= Value(key, r[j])
            /\ \A c \in Range(ratings.order) \ Range(r) :
                  \A d \in Range(r) : Value(key, c) <= Value(key, d)

\* more than 20 rated countries, with ties on the boundary of a ranking: a
\* country left out has the value of the last country of the ranking
C4_Witness ==
    /\ rpc = "printed"
    /\ Len(ratings.order) > 20
    /\ \E key \in Range(rating_keys) :
          /\ Value(key, tops[key][1]) > Value(key, tops[key][20])
          /\ \E c \in Range(ratings.order) \ Range(tops[key]) :
                Value(key, c) = Value(key, tops[key][20])

(* C5 as stated: the ranking of a metric, ranked again by the same metric   *)
(* in the order of the ranking, is the identical sequence, for every input, *)
(* equal metric values included.                                            *)
C5_RerankIsIdentical ==
    rpc = "reranked" => \A key \in Range(rating_keys) : retops[key] = tops[key]

(* C5 amended: ranking the ranking again keeps its countries and the metric *)
(* value at each position; it is the identical sequence when the ranked     *)
(* countries have pairwise distinct values of the metric, and countries     *)
(* with equal values come out in reversed relative order.                   *)
C5_RerankReversesTies ==
    rpc = "reranked" =>
      \A key \in Range(rating_keys) :
        LET r == tops[key]
            s == retops[key]
        IN  /\ Len(s) = Len(r)
            /\ Range(s) = Range(r)
            /\ \A j \in DOMAIN r : Value(key, s[j]) = Value(key, r[j])
            /\ NoTies(r, key) => s = r
            /\ \A i, j \in DOMAIN r :
                  (i < j /\ Value(key, r[i]) = Value(key, r[j]))
                     => PositionIn(s, r[i]) > PositionIn(s, r[j])

\* a ranking of 20 out of more rated countries whose values are pairwise
\* distinct, ranked again
C5_Witness ==
    /\ rpc = "reranked"
    /\ Len(ratings.order) > 20
    /\ \E key \in Range(rating_keys) : NoTies(tops[key], key) /\ retops[key] = tops[key]

-----------------------------------------------------------------------------
(* The inputs of calculate_ratings: CSV files of several countries, each    *)
(* absent, of one blank-province territory, or of two territories, every    *)
(* territory with a row in each of the three files.                         *)

RatingNames == <<"US", "Italy", "Iceland", "Andorra", "Diamond Princess", "Atlantis">>

Profiles == {[present |-> FALSE, cells |-> 1, second |-> FALSE]}
            \cup {[present |-> TRUE, cells |-> v, second |-> s] :
                     v \in DOMAIN CellPool, s \in BOOLEAN}

\* the rows of one file: per country a blank-province row and, for a
\* country of two territories, a second row
RECURSIVE ProfileRows(_, _, _, _)
ProfileRows(type, names, profile, i) ==
    IF i > Len(names) THEN <<>>
    ELSE LET c == names[i]
             p == profile[c]
         IN  (IF p.present
              THEN <<[province |-> "", country |-> c, cells |-> CellPool[p.cells][type]]>>
                   \o (IF p.second
                       THEN <<[province |-> "Hubei", country |-> c,
                               cells |-> CellPool[1][type]]>>
                       ELSE <<>>)
              ELSE <<>>)
             \o ProfileRows(type, names, profile, i + 1)

Cutoffs == {PyNone, Some(1000000), Some(100000)}

InitRatings ==
    /\ \E profile \in [Range(RatingNames) -> Profiles] :
          files = [t \in CaseTypes |-> ProfileRows(t, RatingNames, profile, 1)]
    /\ LET r == countries2json(files)
       IN  /\ ~r.fault
           /\ countries = r.countries
           /\ missing_countries = r.missing
           /\ ci = Len(r.countries.order)
    /\ cpc = "done"
    /\ min_population \in Cutoffs
    /\ ratings = EmptyDict
    /\ tops = EmptyFn
    /\ retops = EmptyFn
    /\ printed = <<>>
    /\ rpc = "start"
    /\ IdleMain

\* calculate_ratings(countries, min_population)
CalculateRatings ==
    /\ rpc = "start"
    /\ LET r == calculate_ratings(countries, min_population)
       IN  /\ ratings' = r.ratings
           /\ rpc' = IF r.fault = "none" THEN "rated" ELSE r.fault
    /\ UNCHANGED <<min_population, tops, retops, printed, ingestVars, mainVars>>

NextRatings == CalculateRatings \/ PrintTopmost20

SpecRatings == InitRatings /\ [][NextRatings]_vars

BelowCutoff(c) ==
    \/ "population" \notin DOMAIN countries.rec[c]
    \/ countries.rec[c].population < min_population[1]

(* C6: calculate_ratings called with a cutoff returns no country whose      *)
(* population is absent or below the cutoff, so that no such country is in  *)
(* any top-20 ranking built from the ratings.                               *)
C6_CutoffExcludes ==
    (min_population # PyNone /\ rpc \in {"rated", "printed"}) =>
      /\ \A c \in Range(ratings.order) \cup DOMAIN ratings.rec : ~BelowCutoff(c)
      /\ rpc = "printed" =>
            \A key \in Range(rating_keys) : \A c \in Range(tops[key]) : ~BelowCutoff(c)

\* under the main program's cutoff, rankings are printed of ratings that
\* leave out a country of unknown population and a country below the cutoff
\* whose confirmed-per-population would be above every rated country's
C6_Witness ==
    /\ rpc = "printed"
    /\ min_population = Some(1000000)
    /\ tops[key_confirmed_per_population] # <<>>
    /\ \E c \in DOMAIN countries.rec : "population" \notin DOMAIN countries.rec[c]
    /\ \E c \in DOMAIN countries.rec :
          /\ "population" \in DOMAIN countries.rec[c]
          /\ countries.rec[c].population < min_population[1]
          /\ LET r == RateCountry(countries.rec[c], Some(1),
                                  Len(countries.rec["US"].totals[key_deaths]))
             IN  /\ r.kind = "rated"
                 /\ \A d \in DOMAIN ratings.rec :
                       r.rating[key_confirmed_per_population]
                          > ratings.rec[d][key_confirmed_per_population]

-----------------------------------------------------------------------------
(* What the CSV files say, read off the rows without the program's dicts *)

TerritoryName(province) == IF province = "" THEN key_mainland ELSE province

\* the territories of a country: the province names of its rows in any file
TerritoriesOf(country) ==
    UNION {{TerritoryName(files[t][i].province) :
               i \in {j \in DOMAIN files[t] : files[t][j].country = country}} :
           t \in CaseTypes}

\* the rows of a file that belong to a territory
RowsAt(t, country, territory) ==
    {i \in DOMAIN files[t] : /\ files[t][i].country = country
                             /\ TerritoryName(files[t][i].province) = territory}

Defines(t, country, territory) == RowsAt(t, country, territory) # {}

\* the counts of a territory under the header's date columns (its last row's)
RawSeries(t, country, territory) ==
    LET i == CHOOSE j \in RowsAt(t, country, territory) :
                 \A k \in RowsAt(t, country, territory) : k <= j
    IN  SubSeq(files[t][i].cells, 1, Min(NDates, Len(files[t][i].cells)))

RECURSIVE SumOver(_, _, _, _)
SumOver(S, t, country, date) ==
    IF S = {} THEN 0
    ELSE LET p == CHOOSE x \in S : TRUE
         IN  ParseInt(RawSeries(t, country, p)[date][2])
             + SumOver(S \ {p}, t, country, date)

\* the territories of a country that have a count of a case type at a date
Contributing(t, country, date) ==
    {p \in TerritoriesOf(country) :
        Defines(t, country, p) /\ date <= Len(RawSeries(t, country, p))}

\* the country at position i of the country map has been through the merge
Merged(i) == cpc = "done" \/ (cpc = "merge" /\ i <= ci)
Faulted(i) == cpc = "fault" /\ i = ci + 1

-----------------------------------------------------------------------------
(* C1: after countries2json, a country of more than one territory has, for  *)
(* every case type and date, totals equal to the integer sum of the counts  *)
(* of the territories that define that case type at that date; a territory  *)
(* lacking the case type adds nothing and raises no error.                  *)
C1_MultiTerritoryTotalsAreSums ==
    \A i \in DOMAIN countries.order :
        LET c == countries.order[i]
        IN  Cardinality(TerritoriesOf(c)) > 1 =>
              /\ ~Faulted(i)
              /\ Merged(i) =>
                    \A t \in CaseTypes : \A date \in 1..NDates :
                        LET S == Contributing(t, c, date)
                            total == countries.rec[c].totals[t]
                        IN  IF S = {} THEN date > Len(total)
                            ELSE /\ date <= Len(total)
                                 /\ total[date] = PyInt(SumOver(S, t, c, date))

\* a merged country of three territories, one of which lacks a case type
\* that the two others define
C1_Witness ==
    /\ cpc = "done"
    /\ \E c \in DOMAIN countries.rec : \E t \in CaseTypes :
          /\ Cardinality(TerritoriesOf(c)) = 3
          /\ Cardinality(Contributing(t, c, 1)) = 2
          /\ \E p \in TerritoriesOf(c) : ~Defines(t, c, p)
          /\ countries.rec[c].totals[t][1][2] > 0

(* C2: after countries2json, a country of exactly one territory, whatever   *)
(* the territory's province name, has for every case type the territory's   *)
(* raw series as its totals, and the step completes without a fault.        *)
(* Stated for a territory that has a row in each of the three files, so     *)
(* that every raw value exists.                                             *)
C2_SingleTerritoryVerbatim ==
    \A i \in DOMAIN countries.order :
        LET c == countries.order[i]
        IN  (/\ Cardinality(TerritoriesOf(c)) = 1
             /\ \A t \in CaseTypes : \A p \in TerritoriesOf(c) : Defines(t, c, p)) =>
              /\ ~Faulted(i)
              /\ Merged(i) =>
                    \A t \in CaseTypes : \A p \in TerritoriesOf(c) :
                        countries.rec[c].totals[t] = RawSeries(t, c, p)

-----------------------------------------------------------------------------
(* The cache files *)

\* the length of a chunk of a file name, in characters
ChunkLen(c) ==
    CASE c = "rev1" -> 40
      [] c = "rev2" -> 40
      [] c = "rev256" -> 64
      [] c = ".cache.json" -> 11
      [] OTHER -> 4

RECURSIVE StrLen(_)
StrLen(s) == IF s = <<>> THEN 0 ELSE ChunkLen(Head(s)) + StrLen(Tail(s))

EndsWith(s, suffix) ==
    /\ Len(s) >= Len(suffix)
    /\ SubSeq(s, Len(s) - Len(suffix) + 1, Len(s)) = suffix

\* get_cachefile_name
get_cachefile_name(h) == IF StrLen(h) # 40 THEN PyNone ELSE Some(h \o file_ext_cache_json)

\* lines 486-492 with a break in place of the loop's continuation
RemoveFrom_StopAfterFirst(caches, i, valid_hash, d, unrem, removed) ==
    IF i > Len(caches) THEN [dir |-> d, removed |-> removed]
    ELSE IF caches[i] \in unrem THEN [dir |-> d, removed |-> removed]
    ELSE [dir |-> d \ {caches[i]}, removed |-> Append(removed, caches[i])]

\* lines 486-492: the loop over the cache files from position i on; a
\* failing os.remove returns from invalidate_cache
RECURSIVE RemoveFrom(_, _, _, _, _, _)
RemoveFrom(caches, i, valid_hash, d, unrem, removed) ==
    IF i > Len(caches) THEN [dir |-> d, removed |-> removed]
    ELSE IF caches[i] # valid_hash \o file_ext_cache_json
         THEN IF caches[i] \in unrem
              THEN [dir |-> d, removed |-> removed]
              ELSE RemoveFrom(caches, i + 1, valid_hash, d \ {caches[i]}, unrem,
                              Append(removed, caches[i]))
         ELSE RemoveFrom(caches, i + 1, valid_hash, d, unrem, removed)

\* line 477-480
func_filter_ending_matches(el) == EndsWith(el, file_ext_cache_json)

\* invalidate_cache(valid_hash), os.listdir('.') returning `listing`: the
\* directory afterwards and the caches announced as removed, in order
invalidate_cache(valid_hash, listing, unrem) ==
    RemoveFrom(SelectSeq(listing, func_filter_ending_matches), 1, valid_hash,
               Range(listing), unrem, <<>>)

\* os.listdir returns the names in an arbitrary order
Listings(d) ==
    {s \in [1..Cardinality(d) -> d] : \A i, j \in DOMAIN s : i # j => s[i] # s[j]}

RemovedEvents(removed) ==
    [j \in DOMAIN removed |-> [kind |-> "removed", name |-> removed[j]]]

-----------------------------------------------------------------------------
(* __main__ *)

\* lines 526-528: the snapshot computed from the CSV files, or the exception
Pipeline(fs) ==
    LET c == countries2json(fs)
    IN  IF c.fault THEN [fault |-> "KeyError", at |-> "countries2json", data |-> PyNone]
        ELSE LET r == calculate_ratings(c.countries, Some(1000000))
             IN  IF r.fault # "none"
                 THEN [fault |-> r.fault, at |-> "calculate_ratings", data |-> PyNone]
                 ELSE [fault |-> "none", at |-> "",
                       data |-> Some([series |-> c.countries, ratings |-> r.ratings])]

Traceback(error, at) == [kind |-> "traceback", error |-> error, at |-> at]

\* lines 520-522: the hash, the cache file's name and invalidate_cache(hash)
Startup ==
    /\ mpc = "start"
    /\ \E listing \in Listings(dir) :
          LET r == invalidate_cache(hash, listing, unremovable)
          IN  /\ dir' = r.dir
              /\ output' = output \o RemovedEvents(r.removed)
    /\ mpc' = "load"
    /\ UNCHANGED <<hash, unremovable, cachegood, argv, data, exitcode, ingestVars, rankVars>>

\* line 523: load_cache_if_available(cachefile).  A cache file that parses
\* holds what an earlier run computed from the same revision of the files
\* (json.dump and json.load return the snapshot as it was).
LoadCache ==
    /\ mpc = "load"
    /\ LET cachefile == get_cachefile_name(hash)
       IN  IF cachefile # PyNone /\ cachefile[1] \in dir /\ cachegood
           THEN /\ data' = Pipeline(files).data
                /\ output' = Append(output, [kind |-> "loaded", name |-> cachefile[1]])
                /\ mpc' = "dispatch"
           ELSE /\ data' = PyNone
                /\ output' = output
                /\ mpc' = "compute"
    /\ UNCHANGED <<hash, dir, unremovable, cachegood, argv, exitcode, ingestVars, rankVars>>

\* lines 525-531: the snapshot is computed and written to the cache file
Compute ==
    /\ mpc = "compute"
    /\ LET p == Pipeline(files)
           cachefile == get_cachefile_name(hash)
       IN  IF p.fault # "none"
           THEN /\ output' = Append(output, Traceback(p.fault, p.at))
                /\ mpc' = "done" /\ exitcode' = Some(1)
                /\ UNCHANGED <<data, dir, cachegood>>
           ELSE IF cachefile = PyNone
           THEN /\ output' = Append(output, Traceback("TypeError", "open"))
                /\ data' = p.data
                /\ mpc' = "done" /\ exitcode' = Some(1)
                /\ UNCHANGED <<dir, cachegood>>
           ELSE /\ output' = Append(output, [kind |-> "writing", name |-> cachefile[1]])
                /\ data' = p.data
                /\ dir' = dir \cup {cachefile[1]}
                /\ cachegood' = TRUE
                /\ mpc' = "dispatch" /\ exitcode' = exitcode
    /\ UNCHANGED <<hash, unremovable, argv, ingestVars, rankVars>>

\* lines 533-536: the argument invalidate
DispatchInvalidate ==
    /\ mpc = "dispatch"
    /\ Len(argv) > 0 /\ argv[1] = key_invalidate
    /\ \E listing \in Listings(dir) :
          LET r == invalidate_cache(<<>>, listing, unremovable)
          IN  /\ dir' = r.dir
              /\ output' = output \o RemovedEvents(r.removed)
    /\ mpc' = "done" /\ exitcode' = Some(0)
    /\ UNCHANGED <<hash, unremovable, cachegood, argv, data, ingestVars, rankVars>>

\* lines 537-539 and 507-513: a name the lookup service recognizes
DispatchCountry ==
    /\ mpc = "dispatch"
    /\ Len(argv) > 0 /\ argv[1] # key_invalidate
    /\ is_country_name_valid(argv[1])
    /\ IF DictHas(data[1].ratings, argv[1])
       THEN /\ output' = Append(output, [kind |-> "country", name |-> argv[1],
                                         record |-> data[1].ratings.rec[argv[1]]])
            /\ exitcode' = Some(0)
       ELSE /\ output' = Append(output, Traceback("KeyError", "print_country_rating"))
            /\ exitcode' = Some(1)
    /\ mpc' = "done"
    /\ UNCHANGED <<hash, dir, unremovable, cachegood, argv, data, ingestVars, rankVars>>

\* lines 533-539: any other argument falls through to the end of the program
DispatchOther ==
    /\ mpc = "dispatch"
    /\ Len(argv) > 0 /\ argv[1] # key_invalidate
    /\ ~is_country_name_valid(argv[1])
    /\ mpc' = "done" /\ exitcode' = Some(0)
    /\ UNCHANGED <<hash, dir, unremovable, cachegood, argv, data, output, ingestVars, rankVars>>

\* lines 540-541: no argument, print_topmost_20(data[key_ratings])
DispatchTopmost ==
    /\ mpc = "dispatch"
    /\ Len(argv) = 0
    /\ output' = output \o
          [j \in DOMAIN Tables(data[1].ratings) |->
              [kind |-> "table", key |-> Tables(data[1].ratings)[j].key,
               rows |-> Tables(data[1].ratings)[j].rows]]
    /\ mpc' = "done" /\ exitcode' = Some(0)
    /\ UNCHANGED <<hash, dir, unremovable, cachegood, argv, data, ingestVars, rankVars>>

-----------------------------------------------------------------------------
(* The inputs of __main__ *)

DirUniverse == {<<"rev1", ".cache.json">>, <<"rev2", ".cache.json">>, <<".cache.json">>,
                <<"rev2", ".cache.json", ".bak">>}

Hashes == {<<"rev1">>, <<"rev256">>}

Arguments == {<<>>, <<"invalidate">>, <<"Italy">>, <<"Iceland">>, <<"United States">>,
              <<"Japan">>, <<"Atlantis">>}

Single(v) == [present |-> TRUE, cells |-> v, second |-> FALSE]
Double(v) == [present |-> TRUE, cells |-> v, second |-> TRUE]
Absent == [present |-> FALSE, cells |-> 1, second |-> FALSE]

MainProfiles ==
    { [c \in Range(RatingNames) |-> Single(1)],
      [c \in Range(RatingNames) |-> IF c \in {"US", "Italy"} THEN Double(1)
                                    ELSE IF c = "Atlantis" THEN Absent ELSE Single(1)],
      [c \in Range(RatingNames) |-> IF c = "US" THEN Absent ELSE Single(1)],
      [c \in Range(RatingNames) |-> IF c = "US" THEN Single(2) ELSE Single(1)] }

\* a country whose only rows carry a province name
ProvinceOnlyRows(type) ==
    <<[province |-> "Greenland", country |-> "Denmark", cells |-> CellPool[1][type]]>>

InitMain ==
    /\ \E profile \in MainProfiles : \E extra \in BOOLEAN :
          LET fs == [t \in CaseTypes |->
                        ProfileRows(t, RatingNames, profile, 1)
                        \o (IF extra THEN ProvinceOnlyRows(t) ELSE <<>>)]
          IN  /\ files = fs
              \* a cache file that parses was written by a run that got that far
              /\ cachegood \in {FALSE} \cup (IF Pipeline(fs).fault = "none" THEN {TRUE} ELSE {})
    /\ countries = EmptyDict
    /\ missing_countries = <<>>
    /\ cpc = "idle"
    /\ ci = 0
    /\ IdleRank
    /\ hash \in Hashes
    /\ dir \in SUBSET DirUniverse
    /\ unremovable \in {u \in SUBSET dir : Cardinality(u) <= 1}
    /\ cachegood =>
          /\ get_cachefile_name(hash) # PyNone
          /\ get_cachefile_name(hash)[1] \in dir
    /\ argv \in Arguments
    /\ data = PyNone
    /\ output = <<>>
    /\ mpc = "start"
    /\ exitcode = PyNone

NextMain ==
    \/ Startup
    \/ LoadCache
    \/ Compute
    \/ DispatchInvalidate
    \/ DispatchCountry
    \/ DispatchOther
    \/ DispatchTopmost

SpecMain == InitMain /\ [][NextMain]_vars

-----------------------------------------------------------------------------
(* The program as a whole *)

CacheFiles == {f \in dir : func_filter_ending_matches(f)}

\* the cache files of other revisions than h
Stale(h) == {f \in CacheFiles : f # h \o file_ext_cache_json}

LastOutput == output[Len(output)]

\* the run ended in a traceback raised before the argument was looked at
CrashedBeforeDispatch ==
    /\ output # <<>>
    /\ LastOutput.kind = "traceback"
    /\ LastOutput.at # "print_country_rating"

TableKeys == {output[j].key : j \in {k \in DOMAIN output : output[k].kind = "table"}}

(* C7: a run with the argument `invalidate` ends with no cache file in the   *)
(* working directory, whatever the files' names and whether or not they     *)
(* belong to the current revision.                                          *)
C7_InvalidateLeavesNoCache ==
    (mpc = "done" /\ argv = <<key_invalidate>>) => CacheFiles = {}

(* C8: a run without arguments that gets as far as print_topmost_20 prints  *)
(* one table for each of the five ranked metrics.                           *)
C8_FiveTablesPrinted ==
    (mpc = "done" /\ argv = <<>> /\ ~CrashedBeforeDispatch) =>
        TableKeys = Range(rating_keys)

(* C9: a run with one argument that the lookup service recognizes as a      *)
(* country name, and that gets as far as looking at the argument, prints    *)
(* that country's record and exits with status 0.                           *)
C9_RecognizedCountryPrinted ==
    (/\ mpc = "done"
     /\ Len(argv) > 0 /\ argv[1] # key_invalidate
     /\ is_country_name_valid(argv[1])
     /\ ~CrashedBeforeDispatch) =>
        /\ exitcode = Some(0)
        /\ output # <<>>
        /\ LastOutput.kind = "country"
        /\ LastOutput.name = argv[1]

-----------------------------------------------------------------------------
(* calculate_ratings without a cutoff *)

\* line 326: the date the ratings are computed for
RatingDate == Len(countries.rec["US"].totals[key_deaths])

KnownPopulation == {c \in DOMAIN countries.rec : "population" \in DOMAIN countries.rec[c]}

\* the country has a count of every case type at the date, a confirmed count
\* that is neither zero nor its population, and a population that is not zero
Computable(c) ==
    LET rec == countries.rec[c]
    IN  /\ \A t \in CaseTypes : RatingDate <= Len(rec.totals[t])
        /\ rec.population # 0
        /\ ToInt(rec.totals[key_confirmed][RatingDate]) # 0
        /\ ToInt(rec.totals[key_confirmed][RatingDate]) # rec.population

(* C11: calculate_ratings called without a cutoff (min_population = None)   *)
(* raises no fault and returns a metric record, with active_per_population  *)
(* = active / population * 100, for every country whose population is      *)
(* known, when each such country has its counts at the date, a confirmed    *)
(* count that is not zero and differs from its population.                  *)
C11_NoCutoffRatesEveryKnownPopulation ==
    (/\ min_population = PyNone
     /\ rpc # "start"
     /\ DictHas(countries, "US")
     /\ countries.rec["US"].totals[key_deaths] # <<>>
     /\ \A c \in KnownPopulation : Computable(c)) =>
        /\ rpc \in {"rated", "printed"}
        /\ \A c \in KnownPopulation :
              /\ DictHas(ratings, c)
              /\ ratings.rec[c][key_active_per_population]
                    = Round3(ratings.rec[c].active, countries.rec[c].population, 2)

=============================================================================
